---- MODULE Spec2Model ----
(***************************************************************************)
(* Model of src/script.js: a to-do list whose tasks live in a Firestore    *)
(* collection per user.  The page holds an input field, a task list (the   *)
(* view), a message box with auto-dismiss timers, and talks to the store   *)
(* through addDoc / deleteDoc / onSnapshot after an auth callback has      *)
(* delivered a user id.                                                    *)
(***************************************************************************)
EXTENDS Integers, Sequences, FiniteSets, TLC

\* ---------------------------------------------------------------- bounds
MaxEvents == 3   \* addTask calls, Remove clicks and sign-ins explored in a run
MaxTimers == 2   \* setTimeout callbacks pending at once

Users == {"u1", "u2"}
Null  == "null"
Unset == "unset"   \* the auth callback has not run yet
Times == {1, 2}      \* the values Date.now() returns

\* the texts the user types: empty, blank, plain, and padded with blanks
InputTexts == {<<>>, <<" ">>, <<"a">>, <<" ", "a", " ">>}

\* ------------------------------------------------------- pure functions
IsWhitespace(c) == c = " "

\* String.prototype.trim: drop leading and trailing whitespace
RECURSIVE TrimStart(_)
TrimStart(s) ==
    IF s = <<>> THEN <<>>
    ELSE IF IsWhitespace(Head(s)) THEN TrimStart(Tail(s)) ELSE s

RECURSIVE TrimEnd(_)
TrimEnd(s) ==
    IF s = <<>> THEN <<>>
    ELSE IF IsWhitespace(s[Len(s)]) THEN TrimEnd(SubSeq(s, 1, Len(s) - 1)) ELSE s

\* faulty variant: only the leading whitespace is dropped
TrimLeadingOnly(s) == TrimStart(s)

Trim(s) == TrimEnd(TrimStart(s))

\* the comparator of tasks.sort: negative, zero or positive
Compare(a, b) == a.createdAt - b.createdAt

\* faulty variant: t goes in front of the elements it compares equal to
RECURSIVE InsertSortedTiesFirst(_, _)
InsertSortedTiesFirst(t, s) ==
    IF s = <<>> THEN <<t>>
    ELSE IF Compare(s[Len(s)], t) >= 0
         THEN Append(InsertSortedTiesFirst(t, SubSeq(s, 1, Len(s) - 1)), s[Len(s)])
         ELSE Append(s, t)

\* insert t behind every element that does not compare greater than it
RECURSIVE InsertSorted(_, _)
InsertSorted(t, s) ==
    IF s = <<>> THEN <<t>>
    ELSE IF Compare(s[Len(s)], t) > 0
         THEN Append(InsertSorted(t, SubSeq(s, 1, Len(s) - 1)), s[Len(s)])
         ELSE Append(s, t)

\* Array.prototype.sort with the comparator above (a stable sort)
RECURSIVE SortTasks(_)
SortTasks(s) ==
    IF s = <<>> THEN <<>>
    ELSE InsertSorted(s[Len(s)], SortTasks(SubSeq(s, 1, Len(s) - 1)))

\* every ordering of a finite set, as sequences
RECURSIVE Orderings(_)
Orderings(S) ==
    IF S = {} THEN {<<>>}
    ELSE UNION {{<<x>> \o r : r \in Orderings(S \ {x})} : x \in S}

Range(s) == {s[i] : i \in DOMAIN s}

\* s lists every element of S once
IsOrderingOf(s, S) == Range(s) = S /\ Len(s) = Cardinality(S)

\* ----------------------------------------------------------- messages
MsgEnterTask    == <<"Please enter a task.">>
MsgNotReady     == <<"Database is not ready. Please wait.">>
MsgAddFailed    == <<"Failed to add task. Check console for details.">>
MsgRemoveFailed == <<"Failed to remove task. Check console for details.">>
MsgLoadFailed   == <<"Failed to load tasks in real-time.">>
MsgAuthFailed   == <<"Authentication failed. Cannot load tasks.">>
MsgInitFailed   == <<"Application failed to initialize. Check console.">>
MsgLoaded(n)    == <<"Loaded ", n, " tasks from the database.">>

\* ---------------------------------------------------------------- state
VARIABLES
    loaded,        \* DOMContentLoaded has run
    db,            \* the Firestore handle is set
    authOn,        \* the onAuthStateChanged callback is registered
    authUser,      \* what the auth callback was last called with
    signInPending, \* a signIn... promise awaits its result
    userId,        \* the global userId
    isAuthReady,   \* the global isAuthReady
    inputValue,    \* taskInput.value
    view,          \* children of taskList: the task each li was built from
    messageBox,    \* the message box element (created = FALSE: undefined)
    timers,        \* pending setTimeout callbacks of showMessage
    subs,          \* live onSnapshot listeners per collection owner
    store,         \* the remote collections, per user
    creates,       \* addDoc requests awaiting their result
    deletes,       \* deleteDoc requests awaiting their result
    nAdd,          \* addTask invocations so far
    nCreate,       \* addDoc requests issued so far
    nRemove,       \* Remove clicks so far
    nDelete,       \* deleteDoc requests issued so far
    nSub           \* onSnapshot requests issued so far

vars == <<loaded, db, authOn, authUser, signInPending, userId, isAuthReady,
          inputValue, view, messageBox, timers, subs, store, creates, deletes,
          nAdd, nCreate, nRemove, nDelete, nSub>>

authVars  == <<authOn, authUser, signInPending, userId, isAuthReady>>
storeVars == <<subs, store, creates, deletes>>
countVars == <<nAdd, nCreate, nRemove, nDelete, nSub>>

NoBox == [created |-> FALSE, text |-> <<>>, style |-> "none", display |-> "none"]

Init ==
    /\ loaded = FALSE
    /\ db = FALSE
    /\ authOn = FALSE
    /\ authUser = Unset
    /\ signInPending = FALSE
    /\ userId = Null
    /\ isAuthReady = FALSE
    /\ inputValue = <<>>
    /\ view = <<>>
    /\ messageBox = NoBox
    /\ timers = 0
    /\ subs = [u \in Users |-> 0]
    /\ store = [u \in Users |-> {}]
    /\ creates = {}
    /\ deletes = {}
    /\ nAdd = 0
    /\ nCreate = 0
    /\ nRemove = 0
    /\ nDelete = 0
    /\ nSub = 0

\* the run has not used up its budget of user actions and sign-ins
MoreEvents == nAdd + nRemove + nSub < MaxEvents

\* ---------------------------------------------------------- showMessage
\* showMessage(text, isError): needs the message box element; without it the
\* first assignment throws a TypeError and nothing is shown
CanShow == messageBox.created /\ timers < MaxTimers

\* faulty variant of showMessage: the setTimeout call is missing
ShowMessageNoTimer(text, isError) ==
    /\ messageBox' = [created |-> TRUE, text |-> text,
                      style |-> IF isError THEN "error" ELSE "success",
                      display |-> "block"]
    /\ timers' = timers

ShowMessage(text, isError) ==
    /\ messageBox' = [created |-> TRUE, text |-> text,
                      style |-> IF isError THEN "error" ELSE "success",
                      display |-> "block"]
    /\ timers' = timers + 1

\* showMessage called from a handler: shows, or throws when there is no box
Report(text, isError) ==
    \/ /\ CanShow
       /\ ShowMessage(text, isError)
    \/ /\ ~messageBox.created
       /\ UNCHANGED <<messageBox, timers>>

\* the setTimeout callback of showMessage
TimerFired ==
    /\ timers > 0
    /\ timers' = timers - 1
    /\ messageBox' = [messageBox EXCEPT !.display = "none"]
    /\ UNCHANGED <<loaded, db, inputValue, view>>
    /\ UNCHANGED <<authVars, storeVars, countVars>>

\* --------------------------------------------------------------- startup
\* the DOMContentLoaded listener with initializeAppAndAuth: either the
\* Firebase handles are obtained, the message box is created and the auth
\* callback is registered, or initializeApp/getFirestore throws before any
\* of that and the catch block calls showMessage without a message box
DOMContentLoaded(ok) ==
    /\ ~loaded
    /\ loaded' = TRUE
    /\ IF ok
       THEN /\ db' = TRUE
            /\ authOn' = TRUE
            /\ messageBox' = [NoBox EXCEPT !.created = TRUE]
            /\ UNCHANGED timers
       ELSE /\ Report(MsgInitFailed, TRUE)
            /\ UNCHANGED <<db, authOn>>
    /\ UNCHANGED <<authUser, signInPending, userId, isAuthReady, inputValue,
                   view>>
    /\ UNCHANGED <<storeVars, countVars>>

\* the user edits the input field
TypeText(s) ==
    /\ loaded
    /\ s # inputValue
    /\ inputValue' = s
    /\ UNCHANGED <<loaded, db, view, messageBox, timers>>
    /\ UNCHANGED <<authVars, storeVars, countVars>>

\* faulty variant of addTask: the readiness gate is missing
addTaskUngated(now) ==
    /\ loaded
    /\ MoreEvents
    /\ nAdd' = nAdd + 1
    /\ LET taskText == Trim(inputValue)
       IN  IF taskText = <<>>
           THEN /\ Report(MsgEnterTask, TRUE)
                /\ UNCHANGED <<creates, nCreate>>
           ELSE /\ creates' = creates \cup
                        {[id |-> <<userId, nCreate + 1>>, user |-> userId,
                          text |-> taskText, createdAt |-> now]}
                /\ nCreate' = nCreate + 1
                /\ UNCHANGED <<messageBox, timers>>
    /\ UNCHANGED <<loaded, db, inputValue, view, subs, store, deletes,
                   nRemove, nDelete, nSub>>
    /\ UNCHANGED authVars

\* faulty variant of addTask: a call made while an earlier create is still
\* pending is dropped
addTaskSerialized(now) ==
    /\ loaded
    /\ MoreEvents
    /\ nAdd' = nAdd + 1
    /\ LET taskText == Trim(inputValue)
       IN  IF taskText = <<>>
           THEN /\ Report(MsgEnterTask, TRUE)
                /\ UNCHANGED <<creates, nCreate>>
           ELSE IF ~db \/ userId = Null
           THEN /\ Report(MsgNotReady, TRUE)
                /\ UNCHANGED <<creates, nCreate>>
           ELSE IF creates # {}
           THEN UNCHANGED <<creates, nCreate, messageBox, timers>>
           ELSE /\ creates' = creates \cup
                        {[id |-> <<userId, nCreate + 1>>, user |-> userId,
                          text |-> taskText, createdAt |-> now]}
                /\ nCreate' = nCreate + 1
                /\ UNCHANGED <<messageBox, timers>>
    /\ UNCHANGED <<loaded, db, inputValue, view, subs, store, deletes,
                   nRemove, nDelete, nSub>>
    /\ UNCHANGED authVars

\* ------------------------------------------------------------- addTask
\* addTask up to its await: validation, the readiness gate, then the addDoc
\* request with the trimmed text and now = Date.now()
addTask(now) ==
    /\ loaded
    /\ MoreEvents
    /\ nAdd' = nAdd + 1
    /\ LET taskText == Trim(inputValue)
       IN  IF taskText = <<>>
           THEN /\ Report(MsgEnterTask, TRUE)
                /\ UNCHANGED <<creates, nCreate>>
           ELSE IF ~db \/ userId = Null
           THEN /\ Report(MsgNotReady, TRUE)
                /\ UNCHANGED <<creates, nCreate>>
           ELSE /\ creates' = creates \cup
                        {[id |-> <<userId, nCreate + 1>>, user |-> userId,
                          text |-> taskText, createdAt |-> now]}
                /\ nCreate' = nCreate + 1
                /\ UNCHANGED <<messageBox, timers>>
    /\ UNCHANGED <<loaded, db, inputValue, view, subs, store, deletes,
                   nRemove, nDelete, nSub>>
    /\ UNCHANGED authVars

\* faulty variant of addDocDone: the input is cleared however the request
\* ends
addDocDoneClearsAlways(req, ok) ==
    /\ req \in creates
    /\ creates' = creates \ {req}
    /\ inputValue' = <<>>
    /\ IF ok
       THEN /\ store' = [store EXCEPT ![req.user] = @ \cup
                           {[id |-> req.id, text |-> req.text,
                             createdAt |-> req.createdAt]}]
            /\ UNCHANGED <<messageBox, timers>>
       ELSE /\ Report(MsgAddFailed, TRUE)
            /\ UNCHANGED store
    /\ UNCHANGED <<loaded, db, view, subs, deletes>>
    /\ UNCHANGED <<authVars, countVars>>

\* faulty variant of addDocDone: a rejected addDoc is sent again
addDocDoneRetry(req, ok) ==
    /\ req \in creates
    /\ IF ok
       THEN /\ creates' = creates \ {req}
            /\ store' = [store EXCEPT ![req.user] = @ \cup
                           {[id |-> req.id, text |-> req.text,
                             createdAt |-> req.createdAt]}]
            /\ inputValue' = <<>>
            /\ UNCHANGED <<messageBox, timers, nCreate>>
       ELSE /\ nCreate < MaxEvents
            /\ creates' = (creates \ {req}) \cup
                              {[req EXCEPT !.id = <<req.user, nCreate + 1>>]}
            /\ nCreate' = nCreate + 1
            /\ Report(MsgAddFailed, TRUE)
            /\ UNCHANGED <<store, inputValue>>
    /\ UNCHANGED <<loaded, db, view, subs, deletes, nAdd, nRemove, nDelete, nSub>>
    /\ UNCHANGED authVars

\* addTask after its await: the addDoc promise settles
addDocDone(req, ok) ==
    /\ req \in creates
    /\ creates' = creates \ {req}
    /\ IF ok
       THEN /\ store' = [store EXCEPT ![req.user] = @ \cup
                           {[id |-> req.id, text |-> req.text,
                             createdAt |-> req.createdAt]}]
            /\ inputValue' = <<>>
            /\ UNCHANGED <<messageBox, timers>>
       ELSE /\ Report(MsgAddFailed, TRUE)
            /\ UNCHANGED <<store, inputValue>>
    /\ UNCHANGED <<loaded, db, view, subs, deletes>>
    /\ UNCHANGED <<authVars, countVars>>

\* ---------------------------------------------------- createTaskElement
\* the li built for a task: its data-doc-id, its text and the task its
\* Remove handler closes over
createTaskElement(task) ==
    [docId |-> task.id, textContent |-> task.text, task |-> task]

\* faulty variant of removeClick: the li is taken out of the list at once
removeClickOptimistic(i) ==
    /\ i \in DOMAIN view
    /\ MoreEvents
    /\ nRemove' = nRemove + 1
    /\ IF ~db \/ userId = Null
       THEN /\ Report(MsgNotReady, TRUE)
            /\ UNCHANGED <<deletes, nDelete, view>>
       ELSE /\ deletes' = deletes \cup
                   {[n |-> nDelete + 1, user |-> userId, id |-> view[i].task.id]}
            /\ nDelete' = nDelete + 1
            /\ view' = SubSeq(view, 1, i - 1) \o SubSeq(view, i + 1, Len(view))
            /\ UNCHANGED <<messageBox, timers>>
    /\ UNCHANGED <<loaded, db, inputValue, subs, store, creates,
                   nAdd, nCreate, nSub>>
    /\ UNCHANGED authVars

\* removeButton.onclick of the i-th li, up to its await
removeClick(i) ==
    /\ i \in DOMAIN view
    /\ MoreEvents
    /\ nRemove' = nRemove + 1
    /\ IF ~db \/ userId = Null
       THEN /\ Report(MsgNotReady, TRUE)
            /\ UNCHANGED <<deletes, nDelete>>
       ELSE /\ deletes' = deletes \cup
                   {[n |-> nDelete + 1, user |-> userId, id |-> view[i].task.id]}
            /\ nDelete' = nDelete + 1
            /\ UNCHANGED <<messageBox, timers>>
    /\ UNCHANGED <<loaded, db, inputValue, view, subs, store, creates,
                   nAdd, nCreate, nSub>>
    /\ UNCHANGED authVars

\* faulty variant of deleteDocDone: the failure message is shown after
\* every delete, rejected or not
deleteDocDoneAlwaysReports(req, ok) ==
    /\ req \in deletes
    /\ deletes' = deletes \ {req}
    /\ IF ok
       THEN store' = [store EXCEPT ![req.user] = {d \in @ : d.id # req.id}]
       ELSE UNCHANGED store
    /\ Report(MsgRemoveFailed, TRUE)
    /\ UNCHANGED <<loaded, db, inputValue, view, subs, creates>>
    /\ UNCHANGED <<authVars, countVars>>

\* removeButton.onclick after its await: the deleteDoc promise settles;
\* deleting a document that does not exist succeeds and changes nothing
deleteDocDone(req, ok) ==
    /\ req \in deletes
    /\ deletes' = deletes \ {req}
    /\ IF ok
       THEN /\ store' = [store EXCEPT ![req.user] = {d \in @ : d.id # req.id}]
            /\ UNCHANGED <<messageBox, timers>>
       ELSE /\ Report(MsgRemoveFailed, TRUE)
            /\ UNCHANGED store
    /\ UNCHANGED <<loaded, db, inputValue, view, subs, creates>>
    /\ UNCHANGED <<authVars, countVars>>

\* ------------------------------------------------- setupRealtimeListener
\* registers one more onSnapshot listener on the collection of uid, unless
\* the handle or the user id is missing
setupRealtimeListener(uid) ==
    IF ~db \/ uid = Null
    THEN UNCHANGED <<subs, nSub>>
    ELSE /\ subs' = [subs EXCEPT ![uid] = @ + 1]
         /\ nSub' = nSub + 1

\* faulty variant of onSnapshotNext: the list is not cleared first
onSnapshotNextAppend(u, snap) ==
    /\ subs[u] > 0
    /\ IsOrderingOf(snap, store[u])
    /\ view' = view \o [i \in DOMAIN snap |-> createTaskElement(SortTasks(snap)[i])]
    /\ Report(MsgLoaded(Len(snap)), FALSE)
    /\ UNCHANGED <<loaded, db, inputValue>>
    /\ UNCHANGED <<authVars, storeVars, countVars>>

\* faulty variant of onSnapshotNext: showMessage is called without its
\* second argument, so the message is styled as an error
onSnapshotNextErrorStyle(u, snap) ==
    /\ subs[u] > 0
    /\ IsOrderingOf(snap, store[u])
    /\ view' = [i \in DOMAIN snap |-> createTaskElement(SortTasks(snap)[i])]
    /\ Report(MsgLoaded(Len(snap)), TRUE)
    /\ UNCHANGED <<loaded, db, inputValue>>
    /\ UNCHANGED <<authVars, storeVars, countVars>>

\* the success callback of onSnapshot for a listener on the collection of
\* u: snap is the snapshot's documents in the order forEach visits them
onSnapshotNext(u, snap) ==
    /\ subs[u] > 0
    /\ IsOrderingOf(snap, store[u])
    /\ view' = [i \in DOMAIN snap |-> createTaskElement(SortTasks(snap)[i])]
    /\ Report(MsgLoaded(Len(snap)), FALSE)
    /\ UNCHANGED <<loaded, db, inputValue>>
    /\ UNCHANGED <<authVars, storeVars, countVars>>

\* the error callback of onSnapshot; the SDK ends a listener that failed
onSnapshotError(u) ==
    /\ subs[u] > 0
    /\ subs' = [subs EXCEPT ![u] = @ - 1]
    /\ Report(MsgLoadFailed, TRUE)
    /\ UNCHANGED <<loaded, db, inputValue, view, store, creates, deletes>>
    /\ UNCHANGED <<authVars, countVars>>

\* faulty variant of AuthStateChanged: a callback with no user resets userId
AuthStateChangedResets(u) ==
    /\ authOn
    /\ u # authUser
    /\ u = "u2" => userId # Null
    /\ authUser' = u
    /\ IF u # Null
       THEN /\ MoreEvents
            /\ userId' = u
            /\ isAuthReady' = TRUE
            /\ signInPending' = FALSE
            /\ setupRealtimeListener(u)
       ELSE /\ signInPending' = TRUE
            /\ userId' = Null
            /\ UNCHANGED <<isAuthReady, subs, nSub>>
    /\ UNCHANGED <<loaded, db, authOn, inputValue, view, messageBox, timers,
                   store, creates, deletes, nAdd, nCreate, nRemove, nDelete>>

\* faulty variant of AuthStateChanged: the listener is set up outside the
\* if (user) branch and without its guard, so also when no user is signed in
AuthStateChangedEager(u) ==
    /\ authOn
    /\ u # authUser
    /\ u = "u2" => userId # Null
    /\ authUser' = u
    /\ MoreEvents
    /\ nSub' = nSub + 1
    /\ IF u # Null
       THEN /\ userId' = u
            /\ isAuthReady' = TRUE
            /\ signInPending' = FALSE
            /\ subs' = [subs EXCEPT ![u] = @ + 1]
       ELSE /\ signInPending' = TRUE
            /\ UNCHANGED <<userId, isAuthReady, subs>>
    /\ UNCHANGED <<loaded, db, authOn, inputValue, view, messageBox, timers,
                   store, creates, deletes, nAdd, nCreate, nRemove, nDelete>>

\* ------------------------------------------------------- authentication
\* the onAuthStateChanged callback, called with a user or with none; with
\* none it starts a sign-in and leaves userId as it is.  User ids are
\* interchangeable, so the first account to sign in is the one called u1.
AuthStateChanged(u) ==
    /\ authOn
    /\ u # authUser
    /\ u = "u2" => userId # Null
    /\ authUser' = u
    /\ IF u # Null
       THEN /\ MoreEvents
            /\ userId' = u
            /\ isAuthReady' = TRUE
            /\ signInPending' = FALSE
            /\ setupRealtimeListener(u)
       ELSE /\ signInPending' = TRUE
            /\ UNCHANGED <<userId, isAuthReady, subs, nSub>>
    /\ UNCHANGED <<loaded, db, authOn, inputValue, view, messageBox, timers,
                   store, creates, deletes, nAdd, nCreate, nRemove, nDelete>>

\* signInWithCustomToken / signInAnonymously rejects
SignInFailed ==
    /\ signInPending
    /\ signInPending' = FALSE
    /\ Report(MsgAuthFailed, TRUE)
    /\ UNCHANGED <<loaded, db, authOn, authUser, userId, isAuthReady,
                   inputValue, view>>
    /\ UNCHANGED <<storeVars, countVars>>

\* another device deletes a document of the collection of u
RemoteDelete(u, d) ==
    /\ d \in store[u]
    /\ store' = [store EXCEPT ![u] = @ \ {d}]
    /\ UNCHANGED <<loaded, db, inputValue, view, messageBox, timers, subs,
                   creates, deletes>>
    /\ UNCHANGED <<authVars, countVars>>

Next ==
    \/ \E ok \in BOOLEAN : DOMContentLoaded(ok)
    \/ \E s \in InputTexts : TypeText(s)
    \/ \E now \in Times : addTask(now)
    \/ \E req \in creates, ok \in BOOLEAN : addDocDone(req, ok)
    \/ \E i \in DOMAIN view : removeClick(i)
    \/ \E req \in deletes, ok \in BOOLEAN : deleteDocDone(req, ok)
    \/ \E u \in Users \cup {Null} : AuthStateChanged(u)
    \/ SignInFailed
    \/ \E u \in Users : \E snap \in Orderings(store[u]) : onSnapshotNext(u, snap)
    \/ \E u \in Users : onSnapshotError(u)
    \/ \E u \in Users : \E d \in store[u] : RemoteDelete(u, d)
    \/ TimerFired

Spec == Init /\ [][Next]_vars

\* the auto-dismiss timers are run by the event loop
SpecFair == Spec /\ WF_vars(TimerFired)

\* ------------------------------------------------------------ properties
\* an addDoc request for trimmed text t is the only thing the step added
CreateIssued(t) ==
    /\ nCreate' = nCreate + 1
    /\ \E r \in creates' :
         /\ creates' = creates \cup {r}
         /\ r \notin creates
         /\ r.text = t

NoCreateIssued == creates' = creates /\ nCreate' = nCreate

\* the message box shows text as an error
ShowsError(box, text) ==
    box.created /\ box.text = text /\ box.style = "error" /\ box.display = "block"

Blanks(n) == [i \in 1..n |-> " "]

\* t is s without its leading and trailing whitespace
IsTrimOf(t, s) ==
    /\ \E i, j \in 0..Len(s) : s = Blanks(i) \o t \o Blanks(j)
    /\ t # <<>> => (t[1] # " " /\ t[Len(t)] # " ")

\* C1: addTask on a text that is empty after trimming shows 'Please enter a
\* task.' and issues no create request, in every connection/auth state.
C1_EmptyTextRejected ==
    [][\A now \in Times :
         (addTask(now) /\ IsTrimOf(<<>>, inputValue)) =>
             (ShowsError(messageBox', MsgEnterTask) /\ NoCreateIssued)]_vars

\* C2 as stated: every addTask on a text that is non-empty after trimming
\* forwards exactly one create request with the trimmed text and leaves the
\* view alone.
C2_EveryNonEmptyAddForwards ==
    [][\A now \in Times :
         (addTask(now) /\ ~IsTrimOf(<<>>, inputValue)) =>
             (/\ \E t \in InputTexts : IsTrimOf(t, inputValue) /\ CreateIssued(t)
              /\ view' = view)]_vars

\* C2 amended: while the database handle and the user id are set, every
\* addTask on a text that is non-empty after trimming forwards exactly one
\* create request with the trimmed text and leaves the view alone.
C2_ReadyAddForwards ==
    [][\A now \in Times :
         (addTask(now) /\ ~IsTrimOf(<<>>, inputValue) /\ db /\ userId # Null) =>
             (/\ \E t \in InputTexts : IsTrimOf(t, inputValue) /\ CreateIssued(t)
              /\ view' = view)]_vars

\* a create request is pending whose text is the padded input, trimmed
C2_Witness ==
    \E r \in creates :
        /\ IsTrimOf(r.text, inputValue)
        /\ r.text # inputValue
        /\ r.user = userId

\* the tasks the list items of a view were built from
TasksOf(v) == [i \in DOMAIN v |-> v[i].task]

Sum(f) == f["u1"] + f["u2"]

\* v is snap reordered: ascending by createdAt, equal createdAt in snap's order
IsStableSortOf(v, snap) ==
    /\ Len(v) = Len(snap)
    /\ \E p \in [DOMAIN v -> DOMAIN snap] :
         /\ \A i, j \in DOMAIN v : i # j => p[i] # p[j]
         /\ \A i \in DOMAIN v : v[i] = snap[p[i]]
         /\ \A i, j \in DOMAIN v :
              i < j => \/ v[i].createdAt < v[j].createdAt
                       \/ v[i].createdAt = v[j].createdAt /\ p[i] < p[j]

\* C3: a successful snapshot callback makes the view a permutation of the
\* snapshot's tasks, ascending by createdAt, ties in the snapshot's order.
C3_SnapshotSortedStable ==
    [][\A u \in Users : \A snap \in Orderings(store[u]) :
         onSnapshotNext(u, snap) => IsStableSortOf(TasksOf(view'), snap)]_vars

\* two tasks with the same createdAt are shown with the later-created one
\* first: the snapshot listed them in that order and the sort kept it
C3_Witness ==
    \E i, j \in DOMAIN view :
        /\ i < j
        /\ view[i].task.createdAt = view[j].task.createdAt
        /\ view[i].task.id[2] > view[j].task.id[2]

\* C4: the view holds exactly the tasks of the snapshot received last: a
\* snapshot callback leaves the snapshot's tasks and nothing else, and no
\* other step changes the view.
C4_ViewIsLatestSnapshot ==
    [][IF \E u \in Users : \E snap \in Orderings(store[u]) : onSnapshotNext(u, snap)
       THEN \A u \in Users : \A snap \in Orderings(store[u]) :
                onSnapshotNext(u, snap) =>
                    /\ Range(TasksOf(view')) = Range(snap)
                    /\ Len(view') = Len(snap)
       ELSE view' = view]_vars

\* a task was on display when Remove was clicked, and after a later empty
\* snapshot nothing of it is left
C4_Witness ==
    /\ nRemove = 1
    /\ view = <<>>
    /\ messageBox.text = MsgLoaded(0)

\* C5: addTask, the Remove click, the completions of their requests, the
\* snapshot error callback and the auth events leave the view unchanged.
C5_OnlySnapshotChangesView ==
    [][(\/ \E now \in Times : addTask(now)
        \/ \E req \in creates, ok \in BOOLEAN : addDocDone(req, ok)
        \/ \E i \in DOMAIN view : removeClick(i)
        \/ \E req \in deletes, ok \in BOOLEAN : deleteDocDone(req, ok)
        \/ \E u \in Users : onSnapshotError(u)
        \/ \E u \in Users \cup {Null} : AuthStateChanged(u)
        \/ SignInFailed) => view' = view]_vars

\* a delete went through while its task is still on display
C5_Witness ==
    /\ nDelete = 1
    /\ deletes = {}
    /\ Len(view) = 1
    /\ store[userId] = {}

\* C6: addTask on a non-empty trimmed text while the database handle or the
\* user id is missing shows 'Database is not ready. Please wait.', issues no
\* create request and leaves the view and the input text as they were.
C6_NotReadyReported ==
    [][\A now \in Times :
         (addTask(now) /\ ~IsTrimOf(<<>>, inputValue) /\ (~db \/ userId = Null)) =>
             (/\ ShowsError(messageBox', MsgNotReady)
              /\ NoCreateIssued
              /\ view' = view
              /\ inputValue' = inputValue)]_vars

\* C7: a Remove click issues a delete request for the id of its task, also
\* when the store no longer holds that id, and 'Failed to remove task' is
\* shown only by a delete the store rejected.
C7_RemoveAlwaysIssuesDelete ==
    [][/\ \A i \in DOMAIN view :
            removeClick(i) =>
                /\ nDelete' = nDelete + 1
                /\ \E r \in deletes' :
                     /\ deletes' = deletes \cup {r}
                     /\ r \notin deletes
                     /\ r.id = view[i].task.id
                /\ messageBox' = messageBox
       /\ (timers' = timers + 1 /\ messageBox'.text = MsgRemoveFailed) =>
              \E req \in deletes : deleteDocDone(req, FALSE)]_vars

\* a delete request is pending for an id its collection does not hold
C7_Witness ==
    \E r \in deletes : \A d \in store[r.user] : d.id # r.id

\* C8: when an error is on display, the next successful snapshot callback
\* shows the success message and replaces the view with that snapshot.
C8_SnapshotRecoversFromError ==
    [][\A u \in Users : \A snap \in Orderings(store[u]) :
         (onSnapshotNext(u, snap) /\ messageBox.style = "error") =>
             (/\ messageBox'.style = "success"
              /\ messageBox'.text = MsgLoaded(Len(snap))
              /\ messageBox'.display = "block"
              /\ IsStableSortOf(TasksOf(view'), snap))]_vars

\* a listener has failed (fewer live than registered), so an error was
\* shown, and the message now on display is the success of a snapshot
\* callback that came after it
C8_Witness ==
    /\ Sum(subs) < nSub
    /\ messageBox.style = "success"
    /\ messageBox.display = "block"

\* C9: a create, delete or subscribe request is issued only while the
\* database handle and the user id are set, and it names that user id.
C9_AuthGate ==
    [][/\ (nCreate' # nCreate \/ nDelete' # nDelete \/ nSub' # nSub) =>
              (db' /\ userId' # Null)
       /\ \A r \in (creates' \ creates) \cup (deletes' \ deletes) :
              r.user = userId' /\ r.user \in Users
       /\ \A u \in Users : subs'[u] > subs[u] => u = userId']_vars

\* requests of all three kinds have been issued
C9_Witness ==
    nCreate > 0 /\ nDelete > 0 /\ nSub > 0

\* C10: no more create requests than addTask calls and no more delete
\* requests than Remove clicks have been issued.
C10_NoRetry ==
    /\ nCreate <= nAdd
    /\ nDelete <= nRemove
    /\ Cardinality(creates) <= nCreate
    /\ Cardinality(deletes) <= nDelete

\* a create was rejected and its failure reported, and nothing was re-sent
C10_Witness ==
    /\ nAdd = 1
    /\ nCreate = 1
    /\ creates = {}
    /\ messageBox.text = MsgAddFailed

\* C11: no error is fatal: whenever the database handle and the user id are
\* set, addTask can forward its create and a snapshot listener is live to
\* render the next snapshot, whatever errors were reported before.
C11_AlwaysRecoverable ==
    (loaded /\ db /\ userId # Null) => \E u \in Users : subs[u] > 0

\* C12: whenever the message box is visible it is hidden again later, with
\* no assumption that any pending request ever completes.
C12_MessageExpires ==
    (messageBox.display = "block") ~> (messageBox.display = "none")

\* a message is visible while a create request is still pending
C12_Witness ==
    /\ messageBox.display = "block"
    /\ timers > 0
    /\ creates # {}

\* C13: until the page has loaded there is no subscription, no user id and
\* nothing on display; a subscription is requested
\* only in a step that leaves the user id set; the success message of a
\* loaded snapshot appears only through a snapshot callback after a
\* subscription request; and once a subscription was requested the user id
\* and the database handle stay set.
C13_Lifecycle ==
    [][/\ ~loaded =>
              (nSub = 0 /\ userId = Null /\ view = <<>> /\ messageBox.style = "none")
       /\ nSub' > nSub => (userId' # Null /\ isAuthReady' /\ db')
       /\ (messageBox'.style = "success" /\ messageBox.style # "success") =>
              (/\ nSub > 0
               /\ \E u \in Users : \E snap \in Orderings(store[u]) :
                      onSnapshotNext(u, snap))
       /\ nSub > 0 => (nSub' > 0 /\ userId' # Null /\ db')]_vars

\* a subscription was requested, its first snapshot has been rendered, and
\* before that an error was reported while no user id was known
C13_Witness ==
    /\ nSub = 1
    /\ nAdd = 1
    /\ nCreate = 0
    /\ messageBox.style = "success"
    /\ view = <<>>

\* a request is awaiting its result
RequestPending == creates # {} \/ deletes # {}

C15_InputClearedOnlyOnSuccess ==
    [][/\ \A now \in Times : addTask(now) => inputValue' = inputValue
       /\ \A req \in creates :
            /\ addDocDone(req, FALSE) => inputValue' = inputValue
            /\ addDocDone(req, TRUE) => inputValue' = <<>>
       /\ inputValue' # inputValue =>
            \/ \E s \in InputTexts : TypeText(s)
            \/ \E req \in creates : addDocDone(req, TRUE)]_vars

\* a create was rejected and reported, and the submitted text is still in
\* the input
C15_Witness ==
    /\ inputValue = <<" ", "a", " ">>
    /\ messageBox.text = MsgAddFailed
    /\ nCreate = 1 /\ creates = {}
    /\ \A u \in Users : store[u] = {}

\* C16: text typed while a create is pending is not lost: a successful
\* completion clears the input only if the input still holds the submitted
\* text and leaves it alone otherwise, and an addTask called while a create
\* of the same text is pending issues no second create.
C16_PendingWindowSafe ==
    [][/\ \A req \in creates :
            addDocDone(req, TRUE) =>
                inputValue' = IF IsTrimOf(req.text, inputValue)
                              THEN <<>> ELSE inputValue
       /\ \A now \in Times :
            (addTask(now) /\ \E r \in creates : IsTrimOf(r.text, inputValue)) =>
                NoCreateIssued]_vars

\* C17: whatever the auth-state callbacks were, at most one snapshot
\* subscription feeds the view, every task in the view belongs to the
\* collection of the current user id, and every delete request is addressed
\* to the collection its task was loaded from.
C17_SingleFeedOwnCollection ==
    /\ Sum(subs) <= 1
    /\ \A i \in DOMAIN view : view[i].task.id[1] = userId
    /\ \A r \in deletes : r.user = r.id[1]

\* C18: once a user id has been obtained it is never reset to null and the
\* database handle is never unset; so whenever the view holds a task both
\* are set, and a Remove click issues a delete request and never shows
\* 'Database is not ready'.
C18_RemoveNeverUnavailable ==
    [][/\ userId # Null => (userId' # Null /\ db /\ db')
       /\ view # <<>> => (db /\ userId # Null)
       /\ \A i \in DOMAIN view :
            removeClick(i) =>
                /\ nDelete' = nDelete + 1
                /\ \E r \in deletes' :
                     /\ r \notin deletes
                     /\ deletes' = deletes \cup {r}
                     /\ r.id = view[i].task.id
                /\ UNCHANGED <<messageBox, timers>>]_vars

\* a Remove click made after a sign-out has issued its delete
C18_Witness ==
    /\ authUser = Null /\ userId # Null
    /\ view # <<>>
    /\ nRemove = 1 /\ nDelete = 1 /\ deletes # {}

\* C19: a visible message is hidden only by its own timer: a timer callback
\* that hides the box is the timer of the message on display, that is, no
\* timer of an earlier message was still pending when that message was shown
\* (timers of equal delay fire in the order they were started).
C19_HiddenByOwnTimer ==
    [][(/\ TimerFired
        /\ messageBox.display = "block"
        /\ messageBox'.display = "none") => timers = 1]_vars

====
